---- MODULE Spec2Model ----
(***************************************************************************)
(* WebDriver-Factory: the options providers, the driver factory and the    *)
(* entry program, as a state machine.                                      *)
(*                                                                         *)
(* Strings whose letter case matters (environment values, the browser      *)
(* family) are sequences of one-character strings, so that str.lower()     *)
(* and str.upper() are computed character by character.                    *)
(***************************************************************************)
EXTENDS Integers, Sequences, FiniteSets, TLC

VARIABLES
    env,              \* os.environ: a mapping from set variable names to values
    cwd,              \* the process's working directory (Deleted: it was removed)
    pc,               \* the position of the single thread
    factory,          \* the WebDriverFactory object: its state and self.browser
    calls,            \* get_driver() calls started on the factory
    options,          \* get_driver's local `options`
    exe,              \* the path manager().install() returned
    service_instance, \* get_driver's local `service_instance`
    driver,           \* the driver object built by driver_class(...)
    procs,            \* browser processes started and not yet terminated
    steps,            \* the collaborator calls made by the current get_driver()
    fault,            \* the exception a collaborator threw in the current call
    raised,           \* the exception propagating to the caller
    log,              \* the records emitted through logging
    provider,         \* a stand-alone options provider object
    ret               \* the value the provider's last method call returned

vars == <<env, cwd, pc, factory, calls, options, exe, service_instance, driver,
          procs, steps, fault, raised, log, provider, ret>>

(***************************************************************************)
(* Bounds of the model.                                                    *)
(***************************************************************************)
MaxCalls == 2

(***************************************************************************)
(* Strings.                                                                *)
(***************************************************************************)
UpperLetters == <<"A","B","C","D","E","F","G","H","I","J","K","L","M",
                  "N","O","P","Q","R","S","T","U","V","W","X","Y","Z">>
LowerLetters == <<"a","b","c","d","e","f","g","h","i","j","k","l","m",
                  "n","o","p","q","r","s","t","u","v","w","x","y","z">>

LowerChar(c) ==
    IF \E i \in DOMAIN UpperLetters : UpperLetters[i] = c
    THEN LowerLetters[CHOOSE i \in DOMAIN UpperLetters : UpperLetters[i] = c]
    ELSE c

UpperChar(c) ==
    IF \E i \in DOMAIN LowerLetters : LowerLetters[i] = c
    THEN UpperLetters[CHOOSE i \in DOMAIN LowerLetters : LowerLetters[i] = c]
    ELSE c

\* variant of Lower: the value is used as written
LowerIdentity(s) == s

\* str.lower()
Lower(s) == [i \in DOMAIN s |-> LowerChar(s[i])]

\* str.upper()
Upper(s) == [i \in DOMAIN s |-> UpperChar(s[i])]

S_chrome  == <<"c","h","r","o","m","e">>
S_firefox == <<"f","i","r","e","f","o","x">>
S_true    == <<"t","r","u","e">>
S_false   == <<"f","a","l","s","e">>

\* Values the BROWSER variable takes in the model.
BrowserValues ==
    { S_chrome, <<"C","h","r","o","m","E">>,
      S_firefox, <<"F","I","R","E","F","O","X">>,
      <<"O","p","e","r","a">>, <<>> }

\* Values the HEADLESS variable takes in the model.
HeadlessValues ==
    { S_true, <<"T","r","u","E">>, S_false, <<"y","e","s">>, <<>> }

Deleted == "<deleted>"
Dirs == {"/work/a", "/work/b"}

\* os.getenv(key, default)
getenv(key, default) == IF key \in DOMAIN env THEN env[key] ELSE default

EnvValues(key) == IF key = "BROWSER" THEN BrowserValues ELSE HeadlessValues

(***************************************************************************)
(* Objects. None is Python's None; every object is a record with a class.  *)
(***************************************************************************)
None == [class |-> "None"]
NoExc == [type |-> "None"]
NoFault == [step |-> "None"]
EmptyMap == <<>>

\* The exceptions a collaborator throws, and Python's class hierarchy above them.
ExcKinds == {"OSError", "WebDriverException", "SessionNotCreatedException"}

Bases(cls) ==
    CASE cls = "SessionNotCreatedException" ->
             {"SessionNotCreatedException", "WebDriverException", "Exception"}
      [] cls = "WebDriverException" -> {"WebDriverException", "Exception"}
      [] OTHER -> {cls, "Exception"}

\* whether `except cls` catches an exception of class exc
IsInstance(exc, cls) == cls \in Bases(exc)

(***************************************************************************)
(* Options providers.                                                      *)
(***************************************************************************)
ProviderClasses == {"ChromeWebDriverOptions", "FirefoxWebDriverOptions"}

\* variant of ChromePrefs: the directory is read when get_prefs is called
ChromePrefsLive(self) ==
    [ k \in {"download.default_directory", "savefile.default_directory"} |-> cwd ]

\* ChromeWebDriverOptions.get_prefs
ChromePrefs(self) ==
    [ k \in { "printing.print_preview_sticky_settings.appState",
              "download.default_directory", "savefile.default_directory",
              "download.prompt_for_download", "download.directory_upgrade",
              "plugins.always_open_pdf_externally", "ignore-certificate-errors",
              "ignore-ssl-errors=yes", "allow-running-insecure-content",
              "disable-web-security", "profile.accept_untrusted_certs",
              "safebrowsing.enabled", "plugins.plugins_disabled",
              "safebrowsing.disable_download_protection",
              "profile.default_content_settings.popups" } |->
        CASE k = "printing.print_preview_sticky_settings.appState" ->
                 "{\"recentDestinations\": [{\"id\": \"Save as PDF\", \"origin\": \"local\", \"account\": \"\"}], \"selectedDestinationId\": \"Save as PDF\", \"version\": 2}"
          [] k = "download.default_directory" -> self.diretorio_download
          [] k = "savefile.default_directory" -> self.diretorio_download
          [] k = "download.prompt_for_download" -> FALSE
          [] k = "plugins.plugins_disabled" -> <<"Chrome PDF Viewer">>
          [] k = "profile.default_content_settings.popups" -> 0
          [] OTHER -> TRUE ]

\* FirefoxWebDriverOptions.get_prefs
FirefoxPrefs(self) ==
    [ k \in { "browser.download.folderList", "browser.download.dir",
              "browser.helperApps.neverAsk.saveToDisk", "pdfjs.disabled" } |->
        CASE k = "browser.download.folderList" -> 2
          [] k = "browser.download.dir" -> self.diretorio_download
          [] k = "browser.helperApps.neverAsk.saveToDisk" ->
                 "application/pdf, application/octet-stream"
          [] OTHER -> TRUE ]

get_prefs(self) ==
    IF self.class = "ChromeWebDriverOptions" THEN ChromePrefs(self)
    ELSE FirefoxPrefs(self)

\* variant of HeadlessOn: the comparison without lower()
HeadlessCaseSensitive(value) == value = S_true

\* os.getenv(key="HEADLESS", default="false").lower() == "true"
HeadlessOn(value) == Lower(value) = S_true

\* ChromeWebDriverOptions.get_options
ChromeOptions(self) ==
    [ class |-> "ChromeOptions",
      arguments |-> (IF HeadlessOn(getenv("HEADLESS", S_false))
                     THEN <<"--headless">> ELSE <<>>) \o <<"--start-maximized">>,
      experimental_options |-> ("prefs" :> get_prefs(self)),
      preferences |-> EmptyMap ]

\* FirefoxWebDriverOptions.get_options
FirefoxOptions(self) ==
    [ class |-> "FirefoxOptions",
      arguments |-> IF HeadlessOn(getenv("HEADLESS", S_false))
                    THEN <<"--headless">> ELSE <<>>,
      experimental_options |-> EmptyMap,
      preferences |-> get_prefs(self) ]

get_options(self) ==
    IF self.class = "ChromeWebDriverOptions" THEN ChromeOptions(self)
    ELSE FirefoxOptions(self)

\* WebDriverOptions.__init__, where os.getcwd() returned dir
NewOptionsProvider(cls, dir) == [class |-> cls, diretorio_download |-> dir]

(***************************************************************************)
(* The registry of supported families.                                     *)
(***************************************************************************)
_browsers ==
    [ b \in {S_chrome, S_firefox} |->
        IF b = S_chrome
        THEN [ driver_class |-> "Chrome",
               webdriver_options |-> "ChromeWebDriverOptions",
               service |-> "ChromeService",
               manager |-> "ChromeDriverManager" ]
        ELSE [ driver_class |-> "Firefox",
               webdriver_options |-> "FirefoxWebDriverOptions",
               service |-> "FirefoxService",
               manager |-> "GeckoDriverManager" ] ]

LogRecord(level, msg, family) == [level |-> level, msg |-> msg, family |-> family]

ValueError(kind, cause) == [type |-> "ValueError", kind |-> kind, cause |-> cause]

\* an exception of a collaborator that no handler of this code catches
Raw(exc) == [type |-> exc, kind |-> "raw", cause |-> "None"]

Init ==
    /\ env \in UNION { [K -> BrowserValues \cup HeadlessValues] :
                         K \in SUBSET {"BROWSER", "HEADLESS"} }
    /\ \A k \in DOMAIN env : env[k] \in EnvValues(k)
    /\ cwd \in Dirs \cup {Deleted}
    /\ pc = "start"
    /\ factory = [state |-> "Uninitialized", browser |-> <<>>]
    /\ calls = 0
    /\ options = None
    /\ exe = None
    /\ service_instance = None
    /\ driver = None
    /\ procs = 0
    /\ steps = <<>>
    /\ fault = NoFault
    /\ raised = NoExc
    /\ log = <<>>
    /\ provider = None
    /\ ret = None

(***************************************************************************)
(* WebDriverFactory.                                                       *)
(***************************************************************************)
\* variant of IsSupported: an empty value passes the test
SupportedOrEmpty(b) == b \in DOMAIN _browsers \/ b = <<>>

\* the registry membership test of __init__
IsSupported(b) == b \in DOMAIN _browsers

\* WebDriverFactory.__init__
FactoryInit ==
    /\ pc = "start"
    /\ LET b == Lower(getenv("BROWSER", S_chrome)) IN
         IF ~IsSupported(b)
         THEN /\ factory' = [state |-> "Invalid", browser |-> b]
              /\ log' = Append(log, LogRecord("ERROR", "unsupported", Upper(b)))
              /\ raised' = ValueError("InvalidConfiguration", "None")
              /\ pc' = "ctor_raised"
         ELSE /\ factory' = [state |-> "Configured", browser |-> b]
              /\ pc' = "ready"
              /\ UNCHANGED <<log, raised>>
    /\ UNCHANGED <<env, cwd, calls, options, exe, service_instance, driver,
                   procs, steps, fault, provider, ret>>

\* variant of BrowserOf: get_driver reads BROWSER again
BrowserReread(self) == Lower(getenv("BROWSER", S_chrome))

\* self.browser, as get_driver reads it
BrowserOf(self) == self.browser

\* get_driver: entry, the first log record and the registry lookup
GetDriverEntry ==
    /\ pc = "ready"
    /\ factory.state = "Configured"
    /\ factory' = [factory EXCEPT !.browser = BrowserOf(factory)]
    /\ log' = Append(log, LogRecord("INFO", "start", Upper(factory'.browser)))
    /\ calls' = calls + 1
    /\ options' = None
    /\ exe' = None
    /\ service_instance' = None
    /\ driver' = None
    /\ steps' = <<>>
    /\ fault' = NoFault
    /\ raised' = NoExc
    /\ pc' = "gd_options"
    /\ UNCHANGED <<env, cwd, procs, provider, ret>>

\* the registry entry `driver_class, webdriver_options, service, manager`
Entry == _browsers[factory.browser]

\* get_driver: options = webdriver_options().get_options()
GdOptions ==
    /\ pc = "gd_options"
    /\ steps' = Append(steps, "options")
    /\ IF cwd = Deleted
       THEN \* os.getcwd() raises in WebDriverOptions.__init__; nothing catches it
            /\ fault' = [step |-> "options", exc |-> "FileNotFoundError"]
            /\ raised' = Raw("FileNotFoundError")
            /\ pc' = "gd_raised"
            /\ UNCHANGED <<options, log>>
       ELSE /\ options' = get_options(NewOptionsProvider(Entry.webdriver_options, cwd))
            /\ log' = Append(log, LogRecord("INFO", "options_ok", Upper(factory.browser)))
            /\ pc' = "gd_install"
            /\ UNCHANGED <<fault, raised>>
    /\ UNCHANGED <<env, cwd, factory, calls, exe, service_instance, driver,
                   procs, provider, ret>>

\* variant of CatchService: only the automation library's exceptions
CatchServiceNarrow(exc) == IsInstance(exc, "WebDriverException")

\* `except Exception as e` around the service configuration
CatchService(exc) == IsInstance(exc, "Exception")

\* variant of CatchDriver: every exception
CatchDriverBroad(exc) == IsInstance(exc, "Exception")

\* variant of CatchDriver: another exception class
CatchDriverTimeout(exc) == IsInstance(exc, "TimeoutException")

\* `except SessionNotCreatedException as e` around the driver construction
CatchDriver(exc) == IsInstance(exc, "SessionNotCreatedException")

\* variant of ServiceFailure: the handler logs and tries install() again
ServiceFailureRetry(step, exc) ==
    /\ fault' = fault
    /\ raised' = raised
    /\ log' = Append(log, LogRecord("ERROR", "service_err", Upper(factory.browser)))
    /\ pc' = "gd_install"

\* the outcome of an exception thrown inside the service try block
ServiceFailure(step, exc) ==
    /\ fault' = [step |-> step, exc |-> exc]
    /\ IF CatchService(exc)
       THEN /\ log' = Append(log, LogRecord("ERROR", "service_err", Upper(factory.browser)))
            /\ raised' = ValueError("ServiceConfiguration", exc)
       ELSE /\ raised' = Raw(exc)
            /\ UNCHANGED log
    /\ pc' = "gd_raised"

\* get_driver: manager().install()
GdInstall ==
    /\ pc = "gd_install"
    /\ steps' = Append(steps, "install")
    /\ \/ /\ exe' = [class |-> "path", manager |-> Entry.manager]
          /\ pc' = "gd_service"
          /\ UNCHANGED <<fault, raised, log>>
       \/ /\ \E exc \in ExcKinds : ServiceFailure("install", exc)
          /\ UNCHANGED exe
    /\ UNCHANGED <<env, cwd, factory, calls, options, service_instance, driver,
                   procs, provider, ret>>

\* get_driver: service_instance = service(executable_path=...)
GdService ==
    /\ pc = "gd_service"
    /\ steps' = Append(steps, "service")
    /\ \/ /\ service_instance' = [class |-> Entry.service, executable_path |-> exe]
          /\ log' = Append(log, LogRecord("INFO", "service_ok", Upper(factory.browser)))
          /\ pc' = "gd_driver"
          /\ UNCHANGED <<fault, raised>>
       \/ /\ \E exc \in ExcKinds : ServiceFailure("service", exc)
          /\ UNCHANGED service_instance
    /\ UNCHANGED <<env, cwd, factory, calls, options, exe, driver,
                   procs, provider, ret>>

\* get_driver: driver = driver_class(options=options, service=service_instance)
\* and `return driver`
GdDriver ==
    /\ pc = "gd_driver"
    /\ steps' = Append(steps, "driver")
    /\ \/ /\ driver' = [class |-> Entry.driver_class, options |-> options,
                        service |-> service_instance, live |-> TRUE]
          /\ procs' = procs + 1
          /\ log' = Append(log, LogRecord("INFO", "driver_ok", Upper(factory.browser)))
          /\ pc' = "gd_returned"
          /\ UNCHANGED <<fault, raised>>
       \/ /\ \E exc \in ExcKinds :
               /\ fault' = [step |-> "driver", exc |-> exc]
               /\ IF CatchDriver(exc)
                  THEN /\ log' = Append(log, LogRecord("ERROR", "driver_err",
                                                       Upper(factory.browser)))
                       /\ raised' = ValueError("DriverStart", exc)
                  ELSE /\ raised' = Raw(exc)
                       /\ UNCHANGED log
          /\ pc' = "gd_raised"
          /\ UNCHANGED <<driver, procs>>
    /\ UNCHANGED <<env, cwd, factory, calls, options, exe, service_instance,
                   provider, ret>>

(***************************************************************************)
(* The caller: `with factory.get_driver() as driver: driver.get(url)`.     *)
(***************************************************************************)
\* WebDriver.__enter__ returns the driver
WithEnter ==
    /\ pc = "gd_returned"
    /\ pc' = "with_body"
    /\ UNCHANGED <<env, cwd, factory, calls, options, exe, service_instance,
                   driver, procs, steps, fault, raised, log, provider, ret>>

\* driver.get(url) returns or raises
WithBody ==
    /\ pc = "with_body"
    /\ \/ UNCHANGED raised
       \/ \E exc \in {"WebDriverException"} : raised' = Raw(exc)
    /\ pc' = "with_exit"
    /\ UNCHANGED <<env, cwd, factory, calls, options, exe, service_instance,
                   driver, procs, steps, fault, log, provider, ret>>

\* variant of WithExit: the driver is quit only when the body returned
ExitLeaks ==
    /\ pc = "with_exit"
    /\ IF raised = NoExc
       THEN /\ driver' = [driver EXCEPT !.live = FALSE]
            /\ procs' = procs - 1
            /\ pc' = "ready"
       ELSE /\ UNCHANGED <<driver, procs>>
            /\ pc' = "with_raised"
    /\ UNCHANGED <<env, cwd, factory, calls, options, exe, service_instance,
                   steps, fault, raised, log, provider, ret>>

\* leaving the with block: WebDriver.__exit__ quits the driver on both paths,
\* and an exception of the body propagates
WithExit ==
    /\ pc = "with_exit"
    /\ driver' = [driver EXCEPT !.live = FALSE]
    /\ procs' = procs - 1
    /\ pc' = IF raised = NoExc THEN "ready" ELSE "with_raised"
    /\ UNCHANGED <<env, cwd, factory, calls, options, exe, service_instance,
                   steps, fault, raised, log, provider, ret>>

\* a caller that calls get_driver() again on the factory it holds
ClientGetDriver ==
    /\ calls < MaxCalls
    /\ GetDriverEntry

\* a caller that handles the error of a call and keeps the factory
ClientCatch ==
    /\ pc \in {"gd_raised", "with_raised"}
    /\ pc' = "ready"
    /\ raised' = NoExc
    /\ UNCHANGED <<env, cwd, factory, calls, options, exe, service_instance,
                   driver, procs, steps, fault, log, provider, ret>>

\* the environment changes between two calls
SetEnv ==
    /\ pc \in {"ready", "prov_ready"}
    /\ \E k \in {"BROWSER", "HEADLESS"} :
         \/ \E v \in EnvValues(k) : env' = (k :> v) @@ env
         \/ /\ k \in DOMAIN env
            /\ env' = [j \in DOMAIN env \ {k} |-> env[j]]
    /\ UNCHANGED <<cwd, pc, factory, calls, options, exe, service_instance,
                   driver, procs, steps, fault, raised, log, provider, ret>>

\* the working directory changes, or is removed, between two calls
Chdir ==
    /\ pc \in {"ready", "prov_ready"}
    /\ cwd' \in Dirs \cup {Deleted}
    /\ UNCHANGED <<env, pc, factory, calls, options, exe, service_instance,
                   driver, procs, steps, fault, raised, log, provider, ret>>

(***************************************************************************)
(* main.py: one factory, one get_driver() call, no handler.                *)
(***************************************************************************)
MainGetDriver ==
    /\ calls = 0
    /\ GetDriverEntry

\* an exception nothing handles ends the program
MainUncaught ==
    /\ pc \in {"ctor_raised", "gd_raised", "with_raised"}
    /\ pc' = "crashed"
    /\ UNCHANGED <<env, cwd, factory, calls, options, exe, service_instance,
                   driver, procs, steps, fault, raised, log, provider, ret>>

\* the end of the file
MainEnd ==
    /\ pc = "ready"
    /\ calls = 1
    /\ pc' = "done"
    /\ UNCHANGED <<env, cwd, factory, calls, options, exe, service_instance,
                   driver, procs, steps, fault, raised, log, provider, ret>>

(***************************************************************************)
(* A caller that uses an options provider directly.                        *)
(***************************************************************************)
\* WebDriverOptions.__init__: self.diretorio_download = os.getcwd()
NewProvider ==
    /\ pc \in {"start", "prov_ready"}
    /\ cwd # Deleted
    /\ \E cls \in ProviderClasses : provider' = NewOptionsProvider(cls, cwd)
    /\ pc' = "prov_ready"
    /\ UNCHANGED <<env, cwd, factory, calls, options, exe, service_instance,
                   driver, procs, steps, fault, raised, log, ret>>

ProvGetPrefs ==
    /\ pc = "prov_ready"
    /\ provider # None
    /\ ret' = [class |-> "dict", value |-> get_prefs(provider)]
    /\ pc' = "prov_returned"
    /\ UNCHANGED <<env, cwd, factory, calls, options, exe, service_instance,
                   driver, procs, steps, fault, raised, log, provider>>

ProvGetOptions ==
    /\ pc = "prov_ready"
    /\ provider # None
    /\ ret' = get_options(provider)
    /\ pc' = "prov_returned"
    /\ UNCHANGED <<env, cwd, factory, calls, options, exe, service_instance,
                   driver, procs, steps, fault, raised, log, provider>>

\* the caller is done with the returned value
ProvResume ==
    /\ pc = "prov_returned"
    /\ ret' = None
    /\ pc' = "prov_ready"
    /\ UNCHANGED <<env, cwd, factory, calls, options, exe, service_instance,
                   driver, procs, steps, fault, raised, log, provider>>

(***************************************************************************)
(* Specifications.                                                         *)
(***************************************************************************)
Next ==
    \/ FactoryInit
    \/ ClientGetDriver
    \/ GdOptions
    \/ GdInstall
    \/ GdService
    \/ GdDriver
    \/ WithEnter
    \/ WithBody
    \/ WithExit
    \/ ClientCatch
    \/ SetEnv
    \/ Chdir

Spec == Init /\ [][Next]_vars

OptionsNext ==
    \/ NewProvider
    \/ ProvGetPrefs
    \/ ProvGetOptions
    \/ ProvResume
    \/ SetEnv
    \/ Chdir

OptionsSpec == Init /\ [][OptionsNext]_vars

MainNext ==
    \/ FactoryInit
    \/ MainGetDriver
    \/ GdOptions
    \/ GdInstall
    \/ GdService
    \/ GdDriver
    \/ WithEnter
    \/ WithBody
    \/ WithExit
    \/ MainUncaught
    \/ MainEnd

MainSpec == Init /\ [][MainNext]_vars

\* every step of the single-threaded program runs to completion
FairMainSpec == MainSpec /\ WF_vars(MainNext)

(***************************************************************************)
(* Properties.                                                             *)
(***************************************************************************)
Range(s) == {s[i] : i \in DOMAIN s}

SameLetter(a, b) ==
    \/ a = b
    \/ \E i \in DOMAIN UpperLetters : {a, b} = {UpperLetters[i], LowerLetters[i]}

\* a and b are equal up to letter case
CaseInsensitiveEq(a, b) ==
    /\ Len(a) = Len(b)
    /\ \A i \in 1..Len(a) : SameLetter(a[i], b[i])

\* the value of BROWSER as set, "chrome" when unset
BrowserSetting == IF "BROWSER" \in DOMAIN env THEN env["BROWSER"] ELSE S_chrome

NamesSupportedFamily(v) == CaseInsensitiveEq(v, S_chrome) \/ CaseInsensitiveEq(v, S_firefox)

NothingCreated ==
    /\ options = None
    /\ exe = None
    /\ service_instance = None
    /\ driver = None
    /\ procs = 0
    /\ steps = <<>>
    /\ calls = 0

\* the step that constructs the factory
Constructs == pc = "start" /\ factory' # factory

IsHeadless(opts) == "--headless" \in Range(opts.arguments)

ErrorLogged ==
    \E i \in DOMAIN log : /\ log[i].level = "ERROR"
                          /\ log[i].msg \in {"service_err", "driver_err"}

\* the last log record is an error record naming the family in upper case
LastLogNamesFamily ==
    /\ log # <<>>
    /\ log[Len(log)].level = "ERROR"
    /\ CaseInsensitiveEq(log[Len(log)].family, factory.browser)
    /\ Range(log[Len(log)].family) \cap Range(LowerLetters) = {}

NormalizedKinds == {"InvalidConfiguration", "ServiceConfiguration", "DriverStart"}

\* C1: a BROWSER value that names no supported family, whatever its letter
\* case, makes the constructor raise the Invalid-Configuration ValueError,
\* and from then on no options, binary, service or driver object exists and
\* no get_driver step has run.
C1_InvalidBrowserRejected ==
    /\ [][Constructs /\ ~NamesSupportedFamily(BrowserSetting)
            => /\ pc' = "ctor_raised"
               /\ factory'.state = "Invalid"
               /\ raised' = ValueError("InvalidConfiguration", "None")]_vars
    /\ [](factory.state = "Invalid" \/ pc = "ctor_raised"
            => /\ pc = "ctor_raised"
               /\ raised = ValueError("InvalidConfiguration", "None")
               /\ NothingCreated)

C1_Witness ==
    /\ pc = "ctor_raised"
    /\ "BROWSER" \in DOMAIN env
    /\ env["BROWSER"] = <<"O","p","e","r","a">>
    /\ factory.browser = <<"o","p","e","r","a">>
    /\ raised.kind = "InvalidConfiguration"

\* C2: a supported family in any letter case, or an unset BROWSER, makes the
\* constructor succeed with the lower-cased family ("chrome" when unset),
\* which is a key of the registry, and get_driver builds that family's
\* options, binary manager, service and driver.
C2_SupportedBrowserConfigured ==
    /\ [][Constructs /\ NamesSupportedFamily(BrowserSetting)
            => /\ pc' = "ready"
               /\ raised' = NoExc
               /\ factory'.state = "Configured"
               /\ factory'.browser =
                    IF CaseInsensitiveEq(BrowserSetting, S_chrome)
                    THEN S_chrome ELSE S_firefox]_vars
    /\ [](factory.state = "Configured"
            => /\ factory.browser \in {S_chrome, S_firefox}
               /\ LET c == factory.browser = S_chrome IN
                    /\ options # None =>
                         options.class = IF c THEN "ChromeOptions" ELSE "FirefoxOptions"
                    /\ exe # None =>
                         exe.manager = IF c THEN "ChromeDriverManager"
                                       ELSE "GeckoDriverManager"
                    /\ service_instance # None =>
                         service_instance.class = IF c THEN "ChromeService"
                                                  ELSE "FirefoxService"
                    /\ driver # None =>
                         driver.class = IF c THEN "Chrome" ELSE "Firefox")

C2_Witness ==
    /\ pc = "gd_returned"
    /\ calls = 1
    /\ "BROWSER" \in DOMAIN env
    /\ env["BROWSER"] = <<"F","I","R","E","F","O","X">>
    /\ factory.browser = S_firefox
    /\ driver.class = "Firefox"

\* C3: the options object get_options() returns, for either provider, holds
\* the --headless argument exactly when HEADLESS, as set when the call is
\* made, equals "true" up to letter case; any other value and an unset
\* variable leave it out, and no error is raised.
C3_HeadlessIffTrue ==
    pc = "prov_returned" /\ ret.class \in {"ChromeOptions", "FirefoxOptions"}
      => /\ IsHeadless(ret) <=> /\ "HEADLESS" \in DOMAIN env
                                /\ CaseInsensitiveEq(env["HEADLESS"], S_true)
         /\ ret.class = IF provider.class = "ChromeWebDriverOptions"
                        THEN "ChromeOptions" ELSE "FirefoxOptions"
         /\ raised = NoExc

C3_Witness ==
    /\ pc = "prov_returned"
    /\ ret.class = "FirefoxOptions"
    /\ "HEADLESS" \in DOMAIN env
    /\ env["HEADLESS"] = <<"T","r","u","E">>
    /\ IsHeadless(ret)

\* the download and save-file directories of a preference mapping
DownloadDirs(prefs) ==
    {prefs[k] : k \in DOMAIN prefs \cap {"download.default_directory",
                                         "browser.download.dir"}}

SaveFileDirs(prefs) ==
    {prefs[k] : k \in DOMAIN prefs \cap {"savefile.default_directory"}}

\* C4 as stated: get_prefs() of either provider gives the current working
\* directory as the download directory and as the save-file directory, also
\* after the working directory changed since the provider was constructed.
C4_PrefsUseCurrentCwd ==
    pc = "prov_returned" /\ ret.class = "dict"
      => /\ DownloadDirs(ret.value) = {cwd}
         /\ SaveFileDirs(ret.value) = {cwd}

\* C4 amended: get_prefs() gives the working directory the provider's
\* constructor captured as the download directory; the Chrome mapping gives
\* it as the save-file directory too and the Firefox mapping has no
\* save-file directory.
C4_PrefsUseCapturedCwd ==
    /\ [][provider' # provider => provider'.diretorio_download = cwd]_vars
    /\ [](pc = "prov_returned" /\ ret.class = "dict"
            => /\ DownloadDirs(ret.value) = {provider.diretorio_download}
               /\ SaveFileDirs(ret.value) =
                    IF provider.class = "ChromeWebDriverOptions"
                    THEN {provider.diretorio_download} ELSE {})

C4_Witness ==
    /\ pc = "prov_returned"
    /\ ret.class = "dict"
    /\ provider.class = "ChromeWebDriverOptions"
    /\ provider.diretorio_download = "/work/a"
    /\ cwd = "/work/b"
    /\ ret.value["savefile.default_directory"] = "/work/a"

\* C5: when install() or the service constructor throws, get_driver raises
\* the Service-Configuration ValueError caused by that exception, the driver
\* class is not called in that call and no driver exists.
C5_ServiceFailureWrapped ==
    fault.step \in {"install", "service"}
      => /\ pc \in {"gd_raised", "ready"}
         /\ pc = "gd_raised" => raised = ValueError("ServiceConfiguration", fault.exc)
         /\ "driver" \notin Range(steps)
         /\ driver = None
         /\ procs = 0

C5_Witness ==
    /\ pc = "gd_raised"
    /\ fault = [step |-> "service", exc |-> "OSError"]
    /\ raised = ValueError("ServiceConfiguration", "OSError")
    /\ exe # None

\* C6: when the driver constructor raises SessionNotCreatedException after
\* options and service were built, get_driver raises the Driver-Start
\* ValueError caused by it and returns no driver.
C6_SessionNotCreatedWrapped ==
    fault.step = "driver" /\ fault.exc = "SessionNotCreatedException"
      => /\ pc \in {"gd_raised", "ready"}
         /\ pc = "gd_raised"
              => raised = ValueError("DriverStart", "SessionNotCreatedException")
         /\ options # None
         /\ service_instance # None
         /\ driver = None
         /\ procs = 0

C6_Witness ==
    /\ pc = "gd_raised"
    /\ fault = [step |-> "driver", exc |-> "SessionNotCreatedException"]
    /\ raised.kind = "DriverStart"
    /\ service_instance.class = "ChromeService"

\* C7 as stated: every failure of the constructor or of a get_driver step
\* reaches the caller as one of the three normalized errors, after an error
\* record naming the upper-cased family was logged.
C7_EveryFailureNormalized ==
    pc \in {"ctor_raised", "gd_raised"}
      => /\ raised.type = "ValueError"
         /\ raised.kind \in NormalizedKinds
         /\ LastLogNamesFamily

\* the failures no handler of get_driver covers
Unhandled ==
    \/ fault.step = "options"
    \/ fault.step = "driver" /\ fault.exc # "SessionNotCreatedException"

\* C7 amended: an unsupported family, any exception of install() or of the
\* service constructor, and a SessionNotCreatedException of the driver
\* constructor reach the caller as the normalized error of their kind, after
\* an error record naming the upper-cased family; an exception raised while
\* the options are built and any other exception of the driver constructor
\* reach the caller as they are, with no error record; none is swallowed.
C7_HandledFailuresNormalized ==
    /\ fault # NoFault => pc \in {"gd_raised", "ready"}
    /\ pc = "ctor_raised" => raised.kind = "InvalidConfiguration" /\ LastLogNamesFamily
    /\ pc = "gd_raised"
         => /\ fault # NoFault
            /\ IF Unhandled
               THEN /\ raised = Raw(fault.exc)
                    /\ log[Len(log)].level = "INFO"
               ELSE /\ raised.type = "ValueError"
                    /\ raised.kind = IF fault.step = "driver" THEN "DriverStart"
                                     ELSE "ServiceConfiguration"
                    /\ raised.cause = fault.exc
                    /\ LastLogNamesFamily

C7_Witness ==
    /\ pc = "gd_raised"
    /\ raised.kind = "ServiceConfiguration"
    /\ fault.step = "install"
    /\ log[Len(log)] = LogRecord("ERROR", "service_err", <<"C","H","R","O","M","E">>)

\* C8: in main.py a driver get_driver() returned is released on every exit
\* path, also when driver.get raises, the program ends, and a failed
\* constructor or get_driver leaves no browser process running.
C8_DriverReleased ==
    /\ (procs > 0) ~> (procs = 0)
    /\ <>(pc \in {"done", "crashed"})
    /\ [](pc \in {"done", "crashed", "ctor_raised", "gd_raised"}
            => /\ procs = 0
               /\ driver # None => ~driver.live)

C8_Witness ==
    /\ pc = "crashed"
    /\ raised = Raw("WebDriverException")
    /\ driver # None
    /\ ~driver.live
    /\ procs = 0

StepOrder == <<"options", "install", "service", "driver">>

\* C9: the steps of one get_driver() call are a prefix of options, install,
\* service, driver: each at most once, in that order, a step only after the
\* ones before it succeeded, none after a failure, and all four before a
\* driver is returned.
C9_StepsInOrder ==
    /\ \E n \in 0..Len(StepOrder) : steps = SubSeq(StepOrder, 1, n)
    /\ Len(steps) >= 2 => options # None
    /\ Len(steps) >= 3 => exe # None
    /\ Len(steps) >= 4 => service_instance # None
    /\ fault # NoFault => steps # <<>> /\ steps[Len(steps)] = fault.step
    /\ pc \in {"gd_returned", "with_body", "with_exit"}
         => steps = StepOrder /\ fault = NoFault /\ driver # None

C9_Witness ==
    /\ pc = "gd_raised"
    /\ steps = <<"options", "install", "service">>
    /\ fault.step = "service"
    /\ calls = 2

\* C10 as stated: once a get_driver() call failed with the
\* Service-Configuration or Driver-Start error, no later call on the factory
\* returns a driver.
C10_FailedIsTerminal == ~(pc = "gd_returned" /\ ErrorLogged)

\* C10 amended: a failed get_driver() leaves the factory Configured and a
\* later call on it may return a driver; the factory, its browser family
\* included, never changes after construction, whatever get_driver() calls
\* and environment changes follow.
C10_FactoryNeverChanges ==
    /\ [][factory.state # "Uninitialized" => factory' = factory]_vars
    /\ [](calls > 0 => factory.state = "Configured")

C10_Witness ==
    /\ pc = "gd_returned"
    /\ ErrorLogged
    /\ calls = 2
    /\ factory = [state |-> "Configured", browser |-> S_chrome]
    /\ "BROWSER" \in DOMAIN env
    /\ env["BROWSER"] = S_firefox

====
